---- MODULE Spec2Model ----
(***************************************************************************)
(* A model of src/app.py, the fantasy-baseball lineup optimizer.           *)
(*                                                                         *)
(* Three specifications share the module:                                  *)
(*   SpecOpt    optimize(players, slots, eligible) (lines 284-308) called  *)
(*              on bounded player lists, slot tables and eligibility       *)
(*              tables;                                                    *)
(*   SpecScore  the per-player scoring loop of the run (lines 139-259) on  *)
(*              bounded scoring tables and stat rows;                      *)
(*   Spec       the application: the roster in the session state, its      *)
(*              edits, and the run of "Fetch Stats, Projections &          *)
(*              Optimize" with the program's own slot tables.              *)
(*                                                                         *)
(* Players are identified by their index in the list they are in; the      *)
(* strings "name (points)" the code puts into a lineup are modelled by     *)
(* that index.  Points are integers.  player['points'] is held in the      *)
(* variable points, by roster index; a value an earlier run left in a      *)
(* player is not kept, since every run writes the points of each player    *)
(* (lines 141, 148, 259) before line 267 reads any.                        *)
(*                                                                         *)
(* The calls out of the program (statsapi, pybaseball, the CBC solver) are *)
(* choices over their answers.  prob.solve returns an optimal solution of  *)
(* the model built at lines 287-297 when one exists.                       *)
(*                                                                         *)
(* Lines 167-226 of app.py are dedented in the file; they are read here as *)
(* part of the body of the loop of line 139, where the names they use      *)
(* (player, search, historical_points) are defined.                        *)
(***************************************************************************)
EXTENDS Integers, Sequences, FiniteSets, TLC

VARIABLES
    players,            \* optimize: the list of players it is called with
    slots,              \* optimize: slot name -> required count
    eligible,           \* optimize: slot name -> set of position tags
    ret,                \* optimize: what it returned
    opc,                \* "build" | "returned"
    roster,             \* st.session_state.roster: [type, positions] per player
    points,             \* player['points'] of the players the run has scored
    batter_scoring,     \* the batter scoring table: stat -> coefficient
    pitcher_scoring,    \* the pitcher scoring table
    pc,                 \* "idle" | "error" | "scoring" | "crashed" | "done"
    idx,                \* the loop of line 139: index of the next player
    unmatched,          \* line 138: the players no lookup found
    last,               \* the stats row of the player scored last, and its score
    out                 \* what the run computed at lines 310-320

optVars == <<players, slots, eligible, ret, opc>>

appVars == <<roster, points, batter_scoring, pitcher_scoring, pc, idx,
             unmatched, last, out>>

vars == <<players, slots, eligible, ret, opc, roster, points, batter_scoring,
          pitcher_scoring, pc, idx, unmatched, last, out>>

----------------------------------------------------------------------------
(* Bounds of the optimize specification.                                   *)

MaxPlayers == 2

Tags == {"a", "b"}

PointVals == {-1, 0, 2}

SlotTables ==
    { [S1 |-> 1, S2 |-> 1], [S1 |-> 2, S2 |-> 0],
      [S1 |-> 1, S2 |-> 2], [S1 |-> 0, S2 |-> 1] }

EligibilityTables ==
    { [S1 |-> {"a"}, S2 |-> {"b"}],          \* one tag per slot
      [S1 |-> {"a"}, S2 |-> {"a", "b"}] }    \* S2 a utility slot

(* The values a binary variable may be left with when CBC ends without an  *)
(* optimal solution: PuLP copies whatever the solver wrote, which need not *)
(* satisfy the constraints nor be 0 or 1 (2 stands for any other value).   *)
SolverLeft == {0, 1, 2}

----------------------------------------------------------------------------
(* Helpers.                                                                *)

RECURSIVE SumFun(_, _)
SumFun(f, S) ==
    IF S = {} THEN 0
    ELSE LET k == CHOOSE k \in S : TRUE
         IN  f[k] + SumFun(f, S \ {k})

RECURSIVE SetToSeq(_)
\* The elements of a set of integers, ascending.
SetToSeq(S) ==
    IF S = {} THEN << >>
    ELSE LET m == CHOOSE m \in S : \A k \in S : m <= k
         IN  <<m>> \o SetToSeq(S \ {m})

----------------------------------------------------------------------------
(* optimize, lines 284-308.                                                *)

\* Overlaps with the test of line 291 reduced to "the player has a position"
OverlapsAnyPosition(p, s, elig) == p.positions # {}

\* line 291: set(p['positions']) & set(eligible[s])
Overlaps(p, s, elig) == p.positions \cap elig[s] # {}

\* VarKeys without the test of line 291: a variable for every pair
VarKeysAllPairs(ps, sl, elig) == (1..Len(ps)) \X (DOMAIN sl)

\* lines 288-292: the keys of x, one binary variable per eligible pair
VarKeys(ps, sl, elig) ==
    { k \in (1..Len(ps)) \X (DOMAIN sl) : Overlaps(ps[k[1]], k[2], elig) }

\* line 293, and pulp.value(prob.objective) of line 306
Objective(ps, x, val) ==
    SumFun([k \in x |-> val[k] * ps[k[1]].points], x)

\* SlotFill with the equality of line 295 relaxed to an upper bound
SlotFillAtMost(ps, sl, x, val) ==
    \A s \in DOMAIN sl :
        SumFun(val, {k \in x : k[2] = s}) <= sl[s]

\* lines 294-295: every slot holds exactly its required count
SlotFill(ps, sl, x, val) ==
    \A s \in DOMAIN sl :
        SumFun(val, {k \in x : k[2] = s}) = sl[s]

\* lines 296-297: a player fills at most one slot
PlayerOnce(ps, sl, x, val) ==
    \A i \in 1..Len(ps) :
        SumFun(val, {k \in x : k[1] = i}) <= 1

FeasibleVals(ps, sl, elig) ==
    LET x == VarKeys(ps, sl, elig)
    IN  { val \in [x -> {0, 1}] :
            SlotFill(ps, sl, x, val) /\ PlayerOnce(ps, sl, x, val) }

\* line 298: prob.solve.  An optimum when the model is feasible (any of the
\* tied ones); otherwise the variables keep what the solver left in them,
\* and the code does not look at the status solve returns.
SolverOutcomes(ps, sl, elig) ==
    LET x    == VarKeys(ps, sl, elig)
        feas == FeasibleVals(ps, sl, elig)
    IN  IF feas # {}
        THEN { val \in feas :
                 \A w \in feas : Objective(ps, x, w) <= Objective(ps, x, val) }
        ELSE [x -> SolverLeft]

\* lines 285-286: the early return for an empty player list
EmptyReturn(ps) == [lineup |-> << >>, total |-> 0, leftover |-> << >>]

\* lines 299-308: the lineup, the total and the leftover read off the values
Extract(ps, sl, elig, val) ==
    LET x    == VarKeys(ps, sl, elig)
        used == { i \in 1..Len(ps) : \E k \in x : k[1] = i /\ val[k] = 1 }
    IN  [ lineup   |-> [s \in DOMAIN sl |->
                          { i \in 1..Len(ps) : <<i, s>> \in x /\ val[<<i, s>>] = 1 }],
          total    |-> Objective(ps, x, val),
          leftover |-> SetToSeq((1..Len(ps)) \ used) ]

\* optimize(players, slots, eligible): every value it can return
optimize(ps, sl, elig) ==
    IF ps = << >>
    THEN { EmptyReturn(ps) }
    ELSE { Extract(ps, sl, elig, val) : val \in SolverOutcomes(ps, sl, elig) }

----------------------------------------------------------------------------
(* The optimize specification: a call on a bounded input.                  *)

NoReturn == [lineup |-> << >>, total |-> 0, leftover |-> << >>]

\* the caller's list grows by one scored player
AppendPlayer ==
    /\ opc = "build"
    /\ Len(players) < MaxPlayers
    /\ \E tags \in SUBSET Tags, pts \in PointVals :
          players' = Append(players, [positions |-> tags, points |-> pts])
    /\ UNCHANGED <<slots, eligible, ret, opc>>
    /\ UNCHANGED appVars

CallOptimize ==
    /\ opc = "build"
    /\ ret' \in optimize(players, slots, eligible)
    /\ opc' = "returned"
    /\ UNCHANGED <<players, slots, eligible>>
    /\ UNCHANGED appVars

NextOpt == AppendPlayer \/ CallOptimize

----------------------------------------------------------------------------
(* Scoring, lines 157-165 and 259.                                         *)

\* lines 50-54
batter_map ==
    ("R" :> "runs") @@ ("1B" :> "singles") @@ ("2B" :> "doubles") @@
    ("3B" :> "triples") @@ ("HR" :> "homeRuns") @@ ("RBI" :> "rbi") @@
    ("SB" :> "stolenBases") @@ ("CS" :> "caughtStealing") @@
    ("BB" :> "baseOnBalls") @@ ("IBB" :> "intentionalWalks") @@
    ("HBP" :> "hitByPitch") @@ ("SO" :> "strikeOuts") @@
    ("GDP" :> "groundIntoDoublePlay")

\* lines 56-60
pitcher_map ==
    ("W" :> "wins") @@ ("L" :> "losses") @@ ("CG" :> "completeGames") @@
    ("SHO" :> "shutouts") @@ ("SV" :> "saves") @@ ("IP" :> "inningsPitched") @@
    ("H" :> "hits") @@ ("ER" :> "earnedRuns") @@ ("BB" :> "baseOnBalls") @@
    ("IBB" :> "intentionalWalks") @@ ("HBP" :> "hitByPitch") @@
    ("SO" :> "strikeouts") @@ ("WP" :> "wildPitches") @@ ("HLD" :> "holds") @@
    ("BS" :> "blownSaves")

\* A value of a stats row: a number, or something that is none (a string
\* such as "180.1" or ".---", None).
Num(v) == <<"num", v>>

NotANumber == <<"str", 0>>

IsNum(v) == v[1] = "num"

\* mapping.get(stat, '') with a default that is the name of a field
MapGetFirstField(mp, stat) ==
    IF stat \in DOMAIN mp THEN mp[stat] ELSE "homeRuns"

\* line 163: mapping.get(stat, '')
MapGet(mp, stat) == IF stat \in DOMAIN mp THEN mp[stat] ELSE ""

\* line 163: row.get(field, 0)
RowGet(row, f) == IF f \in DOMAIN row THEN row[f] ELSE Num(0)

\* line 161
MappingOf(type) == IF type = "batter" THEN batter_map ELSE pitcher_map

\* line 162
ScoringOf(type) == IF type = "batter" THEN batter_scoring ELSE pitcher_scoring

\* line 163: value * coeff, or the sum over them, raises TypeError as soon as
\* one value looked up is not a number
Raises(row, mp, sc) ==
    \E stat \in DOMAIN sc : ~IsNum(RowGet(row, MapGet(mp, stat)))

\* line 163: sum(row.get(mapping.get(stat, ''), 0) * coeff for stat, coeff in scoring.items())
historical_points(row, mp, sc) ==
    SumFun([stat \in DOMAIN sc |-> RowGet(row, MapGet(mp, stat))[2] * sc[stat]],
           DOMAIN sc)

\* lines 168-223: requests and BeautifulSoup are never imported, so line 176
\* raises NameError inside the try and line 223 sets the projection to 0
projection_points == 0

\* line 226; lines 241 and 243 replace it by a tenth of the projection, up
\* or down, which is 0 as well
matchup_bonus == 0

\* line 246; lines 255 and 257 replace it by a tenth or 15 hundredths of the
\* projection, which is 0 as well
advanced_bonus == 0

\* line 259
PlayerPoints(hist) == hist + projection_points + matchup_bonus + advanced_bonus

\* lines 153-154: an empty position list is filled from the lookup
FilledPositions(p, position) ==
    IF p.positions # {} THEN p.positions
    ELSE IF position # "Unknown" THEN {position}
    ELSE IF p.type = "batter" THEN {"UTIL"} ELSE {"P"}

----------------------------------------------------------------------------
(* The lineup tables and the buckets, lines 267-320.                       *)

\* line 271
hitter_slots ==
    ("C" :> 1) @@ ("1B" :> 1) @@ ("2B" :> 1) @@ ("3B" :> 1) @@ ("SS" :> 1) @@
    ("OF" :> 3) @@ ("UTIL" :> 2)

\* line 272
pitcher_slots == ("SP" :> 2) @@ ("RP" :> 2) @@ ("P" :> 4)

\* line 273
bn_slots == 5

\* line 274
il_slots == 4

\* lines 277-280
hitter_eligible ==
    ("C" :> {"C"}) @@ ("1B" :> {"1B"}) @@ ("2B" :> {"2B"}) @@ ("3B" :> {"3B"}) @@
    ("SS" :> {"SS"}) @@ ("OF" :> {"OF"}) @@
    ("UTIL" :> {"C", "1B", "2B", "3B", "SS", "OF", "UTIL"})

\* line 281
pitcher_eligible ==
    ("SP" :> {"SP"}) @@ ("RP" :> {"RP"}) @@ ("P" :> {"SP", "RP", "P"})

\* lines 267-268: the roster indices of the players of a type not on the IL
ActiveOfType(r, type) ==
    SetToSeq({ i \in 1..Len(r) : r[i].type = type /\ "IL" \notin r[i].positions })

\* the players optimize is called with, for a list of roster indices
PlayersAt(r, pts, ix) ==
    [k \in 1..Len(ix) |-> [positions |-> r[ix[k]].positions, points |-> pts[ix[k]]]]

\* what optimize returned, in roster indices
InRoster(res, ix) ==
    [ lineup   |-> [s \in DOMAIN res.lineup |-> { ix[k] : k \in res.lineup[s] }],
      total    |-> res.total,
      leftover |-> [j \in 1..Len(res.leftover) |-> ix[res.leftover[j]]] ]

RECURSIVE SortByPointsDesc(_, _)
\* line 314: leftover.sort(key=points, reverse=True), a stable sort
SortByPointsDesc(s, pts) ==
    IF s = << >> THEN << >>
    ELSE LET j == CHOOSE j \in 1..Len(s) :
                    /\ \A k \in 1..Len(s) : pts[s[k]] <= pts[s[j]]
                    /\ \A k \in 1..(j - 1) : pts[s[k]] < pts[s[j]]
         IN  <<s[j]>> \o
             SortByPointsDesc([k \in 1..(Len(s) - 1) |->
                                  IF k < j THEN s[k] ELSE s[k + 1]], pts)

\* s[:n]
Take(s, n) == SubSeq(s, 1, IF Len(s) < n THEN Len(s) ELSE n)

\* s[n:]
Drop(s, n) == SubSeq(s, n + 1, Len(s))

\* lines 310-320, from what the two calls of optimize returned
Buckets(r, pts, h, p) ==
    LET leftover   == SortByPointsDesc(h.leftover \o p.leftover, pts)
        il_players == SetToSeq({ i \in 1..Len(r) : "IL" \in r[i].positions })
    IN  [ hitter_lineup  |-> h.lineup,
          hitter_pts     |-> h.total,
          pitcher_lineup |-> p.lineup,
          pitcher_pts    |-> p.total,
          bn             |-> Take(leftover, bn_slots),
          unused         |-> Drop(leftover, bn_slots),
          il             |-> Take(il_players, il_slots),
          extra_il       |-> Drop(il_players, il_slots) ]

----------------------------------------------------------------------------
(* Bounds of the application and of the scoring specification.             *)

MaxRoster == 2

MaxScored == 2

\* what the form of lines 86-94 is filled with
PositionChoices == { {}, {"C"}, {"SP"}, {"C", "IL"} }

\* the files uploaded at line 72: the type column is free text
CsvRosters ==
    { << >>,
      <<[type |-> "batter", positions |-> {"C"}],
        [type |-> "dh", positions |-> {"UTIL"}]>> }

\* primaryPosition.abbreviation of a lookup, line 152
PrimaryPositions == {"C", "P", "Unknown"}

StatValues == {Num(2), NotANumber}

RowsOver(fields) == UNION { [F -> StatValues] : F \in SUBSET fields }

\* the rows statsapi.player_stat_data answers with, by stat group (line 157)
RowsOf(type) ==
    IF type = "batter" THEN RowsOver({"homeRuns", "baseOnBalls"})
    ELSE RowsOver({"wins", "inningsPitched"})

\* the tables the text areas of lines 33-40 are edited to
BatterTables ==
    { [s \in S |-> ("HR" :> 4 @@ "BB" :> 1 @@ "XX" :> -1)[s]] :
        S \in SUBSET {"HR", "BB", "XX"} }

PitcherTables ==
    { [s \in S |-> ("W" :> 10 @@ "IP" :> 3)[s]] : S \in SUBSET {"W", "IP"} }

ScoreKinds ==
    { [type |-> "batter", positions |-> {"C"}],
      [type |-> "pitcher", positions |-> {"SP"}],
      [type |-> "batter", positions |-> {"IL"}] }

ScoreRosters ==
    UNION { [1..n -> ScoreKinds] : n \in 1..MaxScored }

----------------------------------------------------------------------------
(* The application.                                                        *)

NoLast == [scored |-> FALSE, type |-> "", row |-> << >>, hist |-> 0]

NoOut ==
    [ hitter_lineup |-> << >>, hitter_pts |-> 0, pitcher_lineup |-> << >>,
      pitcher_pts |-> 0, bn |-> << >>, unused |-> << >>, il |-> << >>,
      extra_il |-> << >> ]

\* a script run starts from fresh locals
FreshRun ==
    /\ points' = << >>
    /\ idx' = 0
    /\ unmatched' = {}
    /\ last' = NoLast
    /\ out' = NoOut

IdleOpt ==
    /\ players = << >>
    /\ slots = [S1 |-> 1, S2 |-> 1]
    /\ eligible = [S1 |-> {"a"}, S2 |-> {"b"}]
    /\ ret = NoReturn
    /\ opc = "build"

IdleApp ==
    /\ roster = << >>
    /\ points = << >>
    /\ batter_scoring = [HR |-> 4, BB |-> 1]
    /\ pitcher_scoring = [W |-> 10, IP |-> 3]
    /\ pc = "idle"
    /\ idx = 0
    /\ unmatched = {}
    /\ last = NoLast
    /\ out = NoOut

\* lines 68-69, with the scoring tables of the text areas
Init == IdleOpt /\ IdleApp

\* lines 96-98: the Add Player form
AddPlayer ==
    /\ pc # "scoring"
    /\ Len(roster) < MaxRoster
    /\ \E typ \in {"batter", "pitcher"}, positions \in PositionChoices :
          roster' = Append(roster, [type |-> typ, positions |-> positions])
    /\ pc' = "idle"
    /\ FreshRun
    /\ UNCHANGED <<batter_scoring, pitcher_scoring, optVars>>

\* lines 110-112: a Remove button
RemovePlayer ==
    /\ pc # "scoring"
    /\ \E i \in 1..Len(roster) :
          roster' = [k \in 1..(Len(roster) - 1) |->
                        IF k < i THEN roster[k] ELSE roster[k + 1]]
    /\ pc' = "idle"
    /\ FreshRun
    /\ UNCHANGED <<batter_scoring, pitcher_scoring, optVars>>

\* lines 349-350
ResetRoster ==
    /\ pc # "scoring"
    /\ roster' = << >>
    /\ pc' = "idle"
    /\ FreshRun
    /\ UNCHANGED <<batter_scoring, pitcher_scoring, optVars>>

\* lines 72-83
UploadCsv ==
    /\ pc # "scoring"
    /\ roster' \in CsvRosters
    /\ pc' = "idle"
    /\ FreshRun
    /\ UNCHANGED <<batter_scoring, pitcher_scoring, optVars>>

\* lines 132-134: the button on an empty roster
RunOnEmptyRoster ==
    /\ pc # "scoring"
    /\ roster = << >>
    /\ pc' = "error"
    /\ FreshRun
    /\ UNCHANGED <<roster, batter_scoring, pitcher_scoring, optVars>>

\* lines 132-138: the button, up to the loop
StartRun ==
    /\ pc # "scoring"
    /\ roster # << >>
    /\ pc' = "scoring"
    /\ points' = << >>
    /\ idx' = 1
    /\ unmatched' = {}
    /\ last' = NoLast
    /\ out' = NoOut
    /\ UNCHANGED <<roster, batter_scoring, pitcher_scoring, optVars>>

InLoop == pc = "scoring" /\ idx <= Len(roster)

\* lines 140-142
ScoreIL ==
    /\ InLoop
    /\ "IL" \in roster[idx].positions
    /\ points' = Append(points, 0)
    /\ idx' = idx + 1
    /\ UNCHANGED <<roster, batter_scoring, pitcher_scoring, pc, unmatched, last,
                   out, optVars>>

\* lines 145-149: the lookup finds nobody
ScoreUnmatched ==
    /\ InLoop
    /\ "IL" \notin roster[idx].positions
    /\ unmatched' = unmatched \cup {idx}
    /\ points' = Append(points, 0)
    /\ idx' = idx + 1
    /\ UNCHANGED <<roster, batter_scoring, pitcher_scoring, pc, last, out, optVars>>

\* lines 151-165 and 259: found, and no season stats
ScoreNoStats ==
    /\ InLoop
    /\ "IL" \notin roster[idx].positions
    /\ \E position \in PrimaryPositions :
          roster' = [roster EXCEPT ![idx].positions =
                        FilledPositions(roster[idx], position)]
    /\ points' = Append(points, PlayerPoints(0))
    /\ idx' = idx + 1
    /\ UNCHANGED <<batter_scoring, pitcher_scoring, pc, unmatched, last, out, optVars>>

\* lines 151-163 and 259: found, and the first row of the stats is scored
ScoreRow ==
    /\ InLoop
    /\ "IL" \notin roster[idx].positions
    /\ \E position \in PrimaryPositions :
          roster' = [roster EXCEPT ![idx].positions =
                        FilledPositions(roster[idx], position)]
    /\ \E row \in RowsOf(roster[idx].type) :
          LET mp == MappingOf(roster[idx].type)
              sc == ScoringOf(roster[idx].type)
          IN  /\ ~Raises(row, mp, sc)
              /\ last' = [scored |-> TRUE, type |-> roster[idx].type, row |-> row,
                          hist |-> historical_points(row, mp, sc)]
              /\ points' = Append(points, PlayerPoints(historical_points(row, mp, sc)))
    /\ idx' = idx + 1
    /\ UNCHANGED <<batter_scoring, pitcher_scoring, pc, unmatched, out, optVars>>

\* lines 151-163: found, and line 163 raises: nothing catches it, the run ends
ScoreRaises ==
    /\ InLoop
    /\ "IL" \notin roster[idx].positions
    /\ \E position \in PrimaryPositions :
          roster' = [roster EXCEPT ![idx].positions =
                        FilledPositions(roster[idx], position)]
    /\ \E row \in RowsOf(roster[idx].type) :
          /\ Raises(row, MappingOf(roster[idx].type), ScoringOf(roster[idx].type))
          /\ last' = [scored |-> FALSE, type |-> roster[idx].type, row |-> row,
                      hist |-> 0]
    /\ pc' = "crashed"
    /\ UNCHANGED <<points, batter_scoring, pitcher_scoring, idx, unmatched, out,
                   optVars>>

\* lines 261-320: the two calls of optimize and the buckets
Finish ==
    /\ pc = "scoring"
    /\ idx > Len(roster)
    /\ LET hitters  == ActiveOfType(roster, "batter")
           pitchers == ActiveOfType(roster, "pitcher")
       IN  \E h \in optimize(PlayersAt(roster, points, hitters),
                             hitter_slots, hitter_eligible),
              p \in optimize(PlayersAt(roster, points, pitchers),
                             pitcher_slots, pitcher_eligible) :
              out' = Buckets(roster, points, InRoster(h, hitters),
                             InRoster(p, pitchers))
    /\ pc' = "done"
    /\ last' = NoLast      \* the locals of the loop are not read after it
    /\ UNCHANGED <<roster, points, batter_scoring, pitcher_scoring, idx, unmatched,
                   optVars>>

Next ==
    \/ AddPlayer \/ RemovePlayer \/ ResetRoster \/ UploadCsv
    \/ RunOnEmptyRoster \/ StartRun
    \/ ScoreIL \/ ScoreUnmatched \/ ScoreNoStats \/ ScoreRow \/ ScoreRaises
    \/ Finish

Spec == Init /\ [][Next]_vars

----------------------------------------------------------------------------
(* The scoring specification: the loop of lines 139-259 on bounded rosters *)
(* and scoring tables.                                                     *)

InitScore ==
    /\ IdleOpt
    /\ roster \in ScoreRosters
    /\ points = << >>
    /\ batter_scoring \in BatterTables
    /\ pitcher_scoring \in PitcherTables
    /\ pc = "idle"
    /\ idx = 0
    /\ unmatched = {}
    /\ last = NoLast
    /\ out = NoOut

NextScore ==
    \/ StartRun
    \/ ScoreIL \/ ScoreUnmatched \/ ScoreNoStats \/ ScoreRow \/ ScoreRaises

SpecScore == InitScore /\ [][NextScore]_vars

----------------------------------------------------------------------------
(* The optimize specification, from an idle application.                   *)

InitOpt ==
    /\ players = << >>
    /\ slots \in SlotTables
    /\ eligible \in EligibilityTables
    /\ ret = NoReturn
    /\ opc = "build"
    /\ IdleApp

SpecOpt == InitOpt /\ [][NextOpt]_vars

----------------------------------------------------------------------------
(* The claims about optimize, checked under SpecOpt.                       *)

None == "none"

\* The assignments of the contract, stated without the program's variables:
\* each player in at most one slot (a function), only in a slot the player
\* is eligible for, and every slot holding exactly its required count.
Assignments(ps, sl, elig) ==
    { a \in [1..Len(ps) -> (DOMAIN sl) \cup {None}] :
        /\ \A i \in 1..Len(ps) :
              a[i] # None => ps[i].positions \cap elig[a[i]] # {}
        /\ \A s \in DOMAIN sl : Cardinality({i \in 1..Len(ps) : a[i] = s}) = sl[s] }

AssignTotal(ps, a) ==
    SumFun([i \in 1..Len(ps) |-> IF a[i] = None THEN 0 ELSE ps[i].points],
           1..Len(ps))

Returned == opc = "returned"

Feasible == Assignments(players, slots, eligible) # {}

\* the players recorded in some slot of the returned lineup
Recorded == UNION { ret.lineup[s] : s \in DOMAIN ret.lineup }

SlotCount(s) ==
    IF s \in DOMAIN ret.lineup THEN Cardinality(ret.lineup[s]) ELSE 0

C2_NoPlayerInTwoSlots ==
    Returned =>
        \A s, t \in DOMAIN ret.lineup :
            s # t => ret.lineup[s] \cap ret.lineup[t] = {}

\* the players eligible for slot s and for no other slot that needs a player
OnlyFor(s) ==
    { i \in 1..Len(players) :
        /\ players[i].positions \cap eligible[s] # {}
        /\ \A t \in DOMAIN slots \ {s} :
              slots[t] > 0 => players[i].positions \cap eligible[t] = {} }

\* C3: a slot never holds more players than its required count, and holds
\* exactly that count when enough players are eligible for it whom no other
\* slot competes for.
C3_SlotCounts ==
    Returned =>
        \A s \in DOMAIN slots :
            /\ SlotCount(s) <= slots[s]
            /\ Cardinality(OnlyFor(s)) >= slots[s] => SlotCount(s) = slots[s]

\* C4: a player is recorded in a slot only if the player's tags meet the
\* slot's tags, and a player whose tags meet no slot's is recorded nowhere
\* and is in the leftover list.
C4_OnlyEligible ==
    Returned =>
        /\ \A s \in DOMAIN ret.lineup : \A i \in ret.lineup[s] :
              players[i].positions \cap eligible[s] # {}
        /\ \A i \in 1..Len(players) :
              (\A s \in DOMAIN slots : players[i].positions \cap eligible[s] = {})
                => /\ i \notin Recorded
                   /\ \E j \in 1..Len(ret.leftover) : ret.leftover[j] = i

\* C4's case: one player is recorded in a slot while another, who meets no
\* slot's tags, is left over.
C4_Witness ==
    /\ Returned
    /\ Recorded # {}
    /\ \E i \in 1..Len(players) :
          /\ \A s \in DOMAIN slots : players[i].positions \cap eligible[s] = {}
          /\ \E j \in 1..Len(ret.leftover) : ret.leftover[j] = i

\* C5: the returned total is the sum of the points of exactly the players
\* recorded in the returned lineup.
C5_TotalIsSumOfRecorded ==
    Returned =>
        ret.total = SumFun([i \in Recorded |-> players[i].points], Recorded)

\* C6: for an empty player list every slot of the slot table is present in
\* the returned assignment with an empty list, and the total is 0.
C6_EmptyIsComplete ==
    (Returned /\ players = << >>) =>
        /\ DOMAIN ret.lineup = DOMAIN slots
        /\ \A s \in DOMAIN ret.lineup : ret.lineup[s] = {}
        /\ ret.total = 0

\* what a caller holding the slot table can see of a returned lineup: every
\* slot present with exactly its required count, no player twice
CompleteFill ==
    /\ DOMAIN ret.lineup = DOMAIN slots
    /\ \A s \in DOMAIN slots : Cardinality(ret.lineup[s]) = slots[s]
    /\ \A s, t \in DOMAIN slots : s # t => ret.lineup[s] \cap ret.lineup[t] = {}

----------------------------------------------------------------------------
(* The claims about scoring, checked under SpecScore.                      *)

\* the tables the player scored last was scored with
LastMap == IF last.type = "batter" THEN batter_map ELSE pitcher_map

LastScoring == IF last.type = "batter" THEN batter_scoring ELSE pitcher_scoring

\* The score of the contract: over the pairs of the coefficient table,
\* coefficient times value where the stat has a field name and the row has
\* that field with a number, and 0 otherwise.
ContractScore(row, mp, sc) ==
    SumFun([stat \in DOMAIN sc |->
               IF stat \in DOMAIN mp /\ mp[stat] \in DOMAIN row
                  /\ row[mp[stat]][1] = "num"
               THEN sc[stat] * row[mp[stat]][2]
               ELSE 0],
           DOMAIN sc)

\* the row has something that is no number under a stat with a coefficient
BadScoredStat(row, mp, sc) ==
    \E stat \in DOMAIN sc :
        stat \in DOMAIN mp /\ mp[stat] \in DOMAIN row /\ row[mp[stat]][1] # "num"

\* the row without field f
Without(row, f) == [g \in (DOMAIN row) \ {f} |-> row[g]]

\* C8: a row with a non-numeric value under a stat that has a coefficient
\* is scored all the same: the run does not end there, the bad field counts
\* 0 and the other stats count coefficient times value.
C8_BadStatCountsZero ==
    (last.type # "" /\ BadScoredStat(last.row, LastMap, LastScoring)) =>
        /\ pc # "crashed"
        /\ last.scored
        /\ last.hist = ContractScore(last.row, LastMap, LastScoring)

\* C9: the score of a row is the sum, over the pairs of the coefficient
\* table, of coefficient times the row's value of the stat, a stat absent
\* from the row or without a field name counting 0; a field of the row that
\* no coefficient refers to does not change the score.
C9_ScoreIsSumOverCoefficients ==
    last.scored =>
        /\ last.hist = ContractScore(last.row, LastMap, LastScoring)
        /\ \A f \in DOMAIN last.row :
              (\A stat \in DOMAIN LastScoring :
                  stat \in DOMAIN LastMap => LastMap[stat] # f)
                => historical_points(Without(last.row, f), LastMap, LastScoring)
                     = last.hist

\* C9's case: coefficients {"HR": 4, "BB": 1} and a row with 2 home runs
\* and no walks score 8.
C9_Witness ==
    /\ last.scored
    /\ last.type = "batter"
    /\ batter_scoring = [HR |-> 4, BB |-> 1]
    /\ last.row = [homeRuns |-> Num(2)]
    /\ last.hist = 8

----------------------------------------------------------------------------
(* The claim about a run of the application, checked under Spec.           *)

InSomeSlot(lineup, i) == \E s \in DOMAIN lineup : i \in lineup[s]

SlotsHolding(lineup, i) == Cardinality({ s \in DOMAIN lineup : i \in lineup[s] })

InSeq(s, i) == \E j \in 1..Len(s) : s[j] = i

\* the number of output buckets roster entry i is in
BucketsHolding(i) ==
    SlotsHolding(out.hitter_lineup, i) + SlotsHolding(out.pitcher_lineup, i)
    + (IF InSeq(out.bn, i) THEN 1 ELSE 0)
    + (IF InSeq(out.unused, i) THEN 1 ELSE 0)
    + (IF InSeq(out.il, i) \/ InSeq(out.extra_il, i) THEN 1 ELSE 0)

OnlyBattersAndPitchers ==
    \A i \in 1..Len(roster) : roster[i].type \in {"batter", "pitcher"}

\* C10 without "exactly one": every entry is in some bucket, and the rest
\* of the claim
RunBuckets ==
    /\ \A i \in 1..Len(roster) : BucketsHolding(i) >= 1
    /\ \A i \in 1..Len(roster) :
          "IL" \in roster[i].positions =>
              /\ InSeq(out.il, i) \/ InSeq(out.extra_il, i)
              /\ ~InSomeSlot(out.hitter_lineup, i)
              /\ ~InSomeSlot(out.pitcher_lineup, i)
              /\ ~InSeq(out.bn, i) /\ ~InSeq(out.unused, i)
    /\ \A i \in 1..Len(roster) :
          /\ roster[i].type = "batter" => ~InSomeSlot(out.pitcher_lineup, i)
          /\ roster[i].type = "pitcher" => ~InSomeSlot(out.hitter_lineup, i)
    /\ \A i \in 1..Len(roster) :
          (InSeq(out.bn, i) \/ InSeq(out.unused, i))
            <=> /\ "IL" \notin roster[i].positions
                /\ ~InSomeSlot(out.hitter_lineup, i)
                /\ ~InSomeSlot(out.pitcher_lineup, i)
    /\ Len(out.bn) <= 5
    /\ \A j \in 1..Len(out.bn) : \A k \in 1..Len(out.unused) :
          points[out.bn[j]] >= points[out.unused[k]]

\* C10: after a run over a roster of batters and pitchers every entry is in
\* exactly one bucket (a hitter slot, a pitcher slot, the bench, the unused
\* list, the IL lists); an IL entry only in the IL lists; no batter in a
\* pitcher slot nor pitcher in a hitter slot; the leftover is the players
\* recorded in no slot; the bench holds at most 5, none below an unused one.
C10_OneBucketEach ==
    (pc = "done" /\ OnlyBattersAndPitchers) =>
        /\ \A i \in 1..Len(roster) : BucketsHolding(i) = 1
        /\ RunBuckets

====
